---- MODULE Spec2Model ----
(***************************************************************************)
(* Model of the mock kernel shim layer (src/rust/stubs.c and the two       *)
(* helper files src/unnamed/part_000, src/unnamed/part_001).               *)
(*                                                                         *)
(* Every entry point of the source is a pure function of its arguments:    *)
(* it is modelled as an operator of the same name that yields the return   *)
(* value and the contents of the objects reachable through its pointer     *)
(* arguments after the call.  An action per entry point applies the        *)
(* operator to the driver's memory and appends the call, with its          *)
(* arguments and its result, to the log of the explored path.  The shim    *)
(* keeps no state of its own; lifecycle notions such as "initialized",     *)
(* "allocated", "added" or "held" are therefore predicates on the log.     *)
(***************************************************************************)
EXTENDS Integers, Sequences, FiniteSets

\* ---------------------------------------------------------------- bounds
MaxCdevCalls == 4
MaxCopyCalls == 2
MaxLockCalls == 3
MaxHandles == 2
MaxDev == 1
MaxMinor == 1
MaxCount == 2
MaxLen == 2
MaxByte == 1
MaxLocks == 2
MaxFmt == 2
MaxAllCalls == 2
MaxPageCalls == 3
MaxTaskCalls == 3
MaxPages == 2
MaxOrder == 1
MaxWaitEntries == 2
MaxTasks == 2

Handles == 1..MaxHandles
DevT == 0..MaxDev
Minors == 0..MaxMinor
Counts == 1..MaxCount
Byte == 0..MaxByte
Locks == 1..MaxLocks
Fmts == 1..MaxFmt
KBufs == {1, 2}
Names == {"test"}
Fops == {1}
PagePtrs == 0..MaxPages
Orders == 0..MaxOrder
GfpMasks == {0}
WaitEntries == 1..MaxWaitEntries
Tasks == 1..MaxTasks
PendingStates == {0, 1}
Modes == {"always_fail", "always_succeed"}
ArgLists == {<<>>, <<0>>, <<1>>}

\* ----------------------------------------------------------------- state
VARIABLES
    calls,    \* log of the path: one record per shim call, in call order
    events,   \* what the shim has relayed to the engine (klee_print_expr)
    dev,      \* the driver's dev_t variable handed to alloc_chrdev_region
    cdevmem,  \* the driver's struct cdev objects: their ops field
    lockmem,  \* the driver's spinlock_t objects: their lock word
    waitmem,  \* the driver's wait_queue_entry objects: their flags word
    kmem,     \* kernel-side buffers of the driver
    umem      \* the user-side buffer; its length is the valid prefix

vars == <<calls, events, dev, cdevmem, lockmem, waitmem, kmem, umem>>

\* The result of a C function: <<v>> for a value, <<>> for void.
Void == <<>>

Call(op, a, b, c, data, ret) ==
    [op |-> op, a |-> a, b |-> b, c |-> c, data |-> data, ret |-> ret]

Last(s) == s[Len(s)]

Prefix(s, n) == SubSeq(s, 1, n)

\* Lock l is held: a spin_lock on it has returned, with no spin_unlock and
\* no spin_lock_init on it since.
Held(log, l) ==
    \E i \in 1..Len(log) :
        /\ log[i].op = "spin_lock"
        /\ log[i].a = l
        /\ ~ \E j \in (i+1)..Len(log) :
               /\ log[j].op \in {"spin_unlock", "spin_lock_init"}
               /\ log[j].a = l

\* -------------------------------------------------- src/rust/stubs.c
\* printk as a rendering logger would be: the arguments are formatted into
\* the relayed text and the number of items written is returned.
printk_rendering(fmt, args) ==
    [ret |-> 1 + Len(args), relayed |-> <<fmt>> \o args]

\* int printk(const char *fmt, ...): relays fmt to klee_print_expr,
\* returns 0; the variable arguments are not read.
printk(fmt, args) == [ret |-> 0, relayed |-> <<fmt>>]

\* alloc_chrdev_region as an allocator would be: the first device number
\* of the region, here the base minor on major 0, is stored through dev.
alloc_chrdev_region_storing(devslot, baseminor, count, name) ==
    [ret |-> 0, dev |-> baseminor]

\* int alloc_chrdev_region(dev_t *dev, unsigned baseminor, unsigned count,
\*                         const char *name): returns 0, *dev not written.
alloc_chrdev_region(devslot, baseminor, count, name) ==
    [ret |-> 0, dev |-> devslot]

\* void unregister_chrdev_region(dev_t from, unsigned count): empty body.
unregister_chrdev_region(from, count) == [ret |-> Void]

\* void cdev_init(struct cdev *cdev, const struct file_operations *fops):
\* empty body, *cdev not written.
cdev_init(cdev, fops) == [ret |-> Void, cdev |-> cdev]

\* cdev_add with the check its comments consider: -EBUSY (-16) when count
\* exceeds a single device number.
cdev_add_checking(p, d, count) ==
    [ret |-> IF count > 1 THEN -16 ELSE 0, cdev |-> p]

\* int cdev_add(struct cdev *p, dev_t dev, unsigned count): returns 0.
cdev_add(p, d, count) == [ret |-> 0, cdev |-> p]

\* void cdev_del(struct cdev *p): empty body.
cdev_del(p) == [ret |-> Void, cdev |-> p]

\* ------------------------------------------------ src/unnamed/part_000
\* unsigned long rust_helper_copy_from_user(void *to,
\*     const void __user *from, unsigned long n): returns 0, *to not written.
rust_helper_copy_from_user(to, from, n) == [ret |-> 0, to |-> to]

\* unsigned long rust_helper_copy_to_user(void __user *to,
\*     const void *from, unsigned long n): returns 0, *to not written.
rust_helper_copy_to_user(to, from, n) == [ret |-> 0, to |-> to]

\* void rust_helper_spin_lock_init(spinlock_t *lock, const char *name,
\*     struct lock_class_key *key): empty body.
rust_helper_spin_lock_init(lock, name) == [ret |-> Void, lock |-> lock]

\* void rust_helper_spin_lock(spinlock_t *lock): empty body.
rust_helper_spin_lock(lock) == [ret |-> Void, lock |-> lock]

\* void rust_helper_spin_unlock(spinlock_t *lock): empty body.
rust_helper_spin_unlock(lock) == [ret |-> Void, lock |-> lock]

\* void rust_helper_init_wait(struct wait_queue_entry *wq_entry): empty
\* body, *wq_entry not written.
rust_helper_init_wait(wq_entry) == [ret |-> Void, wq_entry |-> wq_entry]

\* void *rust_helper_kmap(struct page *page): returns 0 (a null address).
rust_helper_kmap(page) == [ret |-> 0]

\* void rust_helper_kunmap(struct page *page): empty body.
rust_helper_kunmap(page) == [ret |-> Void]

\* int rust_helper_signal_pending(void): returns 0.
rust_helper_signal_pending == [ret |-> 0]

\* struct page *rust_helper_alloc_pages(gfp_t gfp_mask,
\*     unsigned int order): returns 0 (a null page).
rust_helper_alloc_pages(gfp_mask, order) == [ret |-> 0]

\* int rust_helper_current_pid(void): returns 0.
rust_helper_current_pid == [ret |-> 0]

\* ------------------------------------------------------------ initial
\* A path starts with an empty log.  The driver's objects live in zeroed
\* storage, except its dev_t variable, which is an uninitialized local
\* whose value is arbitrary, and the buffers, whose contents are inputs.
InitBase ==
    /\ calls = <<>>
    /\ events = <<>>
    /\ cdevmem = [h \in Handles |-> 0]
    /\ lockmem = [l \in Locks |-> 0]
    /\ waitmem = [w \in WaitEntries |-> 0]

InitCdev ==
    /\ InitBase
    /\ dev \in DevT
    /\ kmem = [b \in KBufs |-> [i \in 1..MaxLen |-> 0]]
    /\ umem = <<>>

\* ------------------------------------ character-device lifecycle calls
AllocChrdevRegion ==
    /\ Len(calls) < MaxCdevCalls
    /\ \E baseminor \in Minors, count \in Counts, name \in Names :
         LET r == alloc_chrdev_region(dev, baseminor, count, name) IN
           /\ dev' = r.dev
           /\ calls' = Append(calls,
                 Call("alloc_chrdev_region", r.dev, baseminor, count,
                      <<>>, <<r.ret>>))
    /\ UNCHANGED <<events, cdevmem, lockmem, waitmem, kmem, umem>>

UnregisterChrdevRegion ==
    /\ Len(calls) < MaxCdevCalls
    /\ \E from \in DevT, count \in Counts :
         LET r == unregister_chrdev_region(from, count) IN
           calls' = Append(calls,
                 Call("unregister_chrdev_region", from, count, 0,
                      <<>>, r.ret))
    /\ UNCHANGED <<events, dev, cdevmem, lockmem, waitmem, kmem, umem>>

CdevInit ==
    /\ Len(calls) < MaxCdevCalls
    /\ \E p \in Handles, fops \in Fops :
         LET r == cdev_init(cdevmem[p], fops) IN
           /\ cdevmem' = [cdevmem EXCEPT ![p] = r.cdev]
           /\ calls' = Append(calls,
                 Call("cdev_init", p, fops, 0, <<>>, r.ret))
    /\ UNCHANGED <<events, dev, lockmem, waitmem, kmem, umem>>

CdevAdd ==
    /\ Len(calls) < MaxCdevCalls
    /\ \E p \in Handles, d \in DevT, count \in Counts :
         LET r == cdev_add(cdevmem[p], d, count) IN
           /\ cdevmem' = [cdevmem EXCEPT ![p] = r.cdev]
           /\ calls' = Append(calls,
                 Call("cdev_add", p, d, count, <<>>, <<r.ret>>))
    /\ UNCHANGED <<events, dev, lockmem, waitmem, kmem, umem>>

CdevDel ==
    /\ Len(calls) < MaxCdevCalls
    /\ \E p \in Handles :
         LET r == cdev_del(cdevmem[p]) IN
           /\ cdevmem' = [cdevmem EXCEPT ![p] = r.cdev]
           /\ calls' = Append(calls,
                 Call("cdev_del", p, 0, 0, <<>>, r.ret))
    /\ UNCHANGED <<events, dev, lockmem, waitmem, kmem, umem>>

NextCdev ==
    \/ AllocChrdevRegion
    \/ UnregisterChrdevRegion
    \/ CdevInit
    \/ CdevAdd
    \/ CdevDel

SpecCdev == InitCdev /\ [][NextCdev]_vars

\* ------------------------------------------------- memory-copy calls
\* The kernel-side buffers hold MaxLen bytes each; the user-side object
\* holds 0..MaxLen bytes, so a request of more than Len(umem) bytes asks
\* for more than the user side is valid for.
InitCopy ==
    /\ InitBase
    /\ dev = 0
    /\ kmem \in [KBufs -> [1..MaxLen -> Byte]]
    /\ umem \in UNION {[1..v -> Byte] : v \in 0..MaxLen}

\* The first n bytes of buffer s, as far as it reaches.
Bytes(s, n) == SubSeq(s, 1, IF n <= Len(s) THEN n ELSE Len(s))

\* copy_from_user(kmem[kb], umem, n): the log keeps the source bytes.
CopyFromUser ==
    /\ Len(calls) < MaxCopyCalls
    /\ \E kb \in KBufs, n \in 0..MaxLen :
         LET r == rust_helper_copy_from_user(kmem[kb], umem, n) IN
           /\ kmem' = [kmem EXCEPT ![kb] = r.to]
           /\ calls' = Append(calls,
                 Call("copy_from_user", kb, n, 0, Bytes(umem, n),
                      <<r.ret>>))
    /\ UNCHANGED <<events, dev, cdevmem, lockmem, waitmem, umem>>

\* copy_to_user(umem, kmem[kb], n): the log keeps the source bytes.
CopyToUser ==
    /\ Len(calls) < MaxCopyCalls
    /\ \E kb \in KBufs, n \in 0..MaxLen :
         LET r == rust_helper_copy_to_user(umem, kmem[kb], n) IN
           /\ umem' = r.to
           /\ calls' = Append(calls,
                 Call("copy_to_user", kb, n, 0, Bytes(kmem[kb], n),
                      <<r.ret>>))
    /\ UNCHANGED <<events, dev, cdevmem, lockmem, waitmem, kmem>>

NextCopy ==
    \/ CopyFromUser
    \/ CopyToUser

SpecCopy == InitCopy /\ [][NextCopy]_vars

\* --------------------------------------------- synchronization calls
InitLock ==
    /\ InitBase
    /\ dev = 0
    /\ kmem = [b \in KBufs |-> [i \in 1..MaxLen |-> 0]]
    /\ umem = <<>>

Printk ==
    /\ Len(calls) < MaxLockCalls
    /\ \E fmt \in Fmts, args \in ArgLists :
         LET r == printk(fmt, args) IN
           /\ events' = events \o r.relayed
           /\ calls' = Append(calls,
                 Call("printk", fmt, 0, 0, args, <<r.ret>>))
    /\ UNCHANGED <<dev, cdevmem, lockmem, waitmem, kmem, umem>>

SpinLockInit ==
    /\ Len(calls) < MaxLockCalls
    /\ \E l \in Locks, name \in Names :
         LET r == rust_helper_spin_lock_init(lockmem[l], name) IN
           /\ lockmem' = [lockmem EXCEPT ![l] = r.lock]
           /\ calls' = Append(calls,
                 Call("spin_lock_init", l, 0, 0, <<>>, r.ret))
    /\ UNCHANGED <<events, dev, cdevmem, waitmem, kmem, umem>>

\* spin_lock(&lock l) as a real spinlock would be: the call returns only
\* once the lock is free, so on a held lock it never returns.
SpinLockOn_spinning(l) ==
    /\ Len(calls) < MaxLockCalls
    /\ ~Held(calls, l)
    /\ lockmem' = [lockmem EXCEPT ![l] = 1]
    /\ calls' = Append(calls, Call("spin_lock", l, 0, 0, <<>>, Void))
    /\ UNCHANGED <<events, dev, cdevmem, waitmem, kmem, umem>>

\* spin_lock(&lock l): the call runs to its return in one step.
SpinLockOn(l) ==
    /\ Len(calls) < MaxLockCalls
    /\ LET r == rust_helper_spin_lock(lockmem[l]) IN
           /\ lockmem' = [lockmem EXCEPT ![l] = r.lock]
           /\ calls' = Append(calls,
                 Call("spin_lock", l, 0, 0, <<>>, r.ret))
    /\ UNCHANGED <<events, dev, cdevmem, waitmem, kmem, umem>>

SpinLock == \E l \in Locks : SpinLockOn(l)

SpinUnlock ==
    /\ Len(calls) < MaxLockCalls
    /\ \E l \in Locks :
         LET r == rust_helper_spin_unlock(lockmem[l]) IN
           /\ lockmem' = [lockmem EXCEPT ![l] = r.lock]
           /\ calls' = Append(calls,
                 Call("spin_unlock", l, 0, 0, <<>>, r.ret))
    /\ UNCHANGED <<events, dev, cdevmem, waitmem, kmem, umem>>

NextLock ==
    \/ Printk
    \/ SpinLockInit
    \/ SpinLock
    \/ SpinUnlock

SpecLock == InitLock /\ [][NextLock]_vars

\* ------------------------------------------------- page management calls
\* alloc_pages is called under the allocation mode the engine is
\* configured with; the log keeps the mode next to the call.
AllocPages ==
    /\ Len(calls) < MaxPageCalls
    /\ \E gfp_mask \in GfpMasks, order \in Orders, mode \in Modes :
         LET r == rust_helper_alloc_pages(gfp_mask, order) IN
           calls' = Append(calls,
                 Call("alloc_pages", gfp_mask, order, 0, <<mode>>,
                      <<r.ret>>))
    /\ UNCHANGED <<events, dev, cdevmem, lockmem, waitmem, kmem, umem>>

\* kmap(page): page is a null (0) or non-null page pointer.
Kmap ==
    /\ Len(calls) < MaxPageCalls
    /\ \E page \in PagePtrs :
         LET r == rust_helper_kmap(page) IN
           calls' = Append(calls,
                 Call("kmap", page, 0, 0, <<>>, <<r.ret>>))
    /\ UNCHANGED <<events, dev, cdevmem, lockmem, waitmem, kmem, umem>>

Kunmap ==
    /\ Len(calls) < MaxPageCalls
    /\ \E page \in PagePtrs :
         LET r == rust_helper_kunmap(page) IN
           calls' = Append(calls,
                 Call("kunmap", page, 0, 0, <<>>, r.ret))
    /\ UNCHANGED <<events, dev, cdevmem, lockmem, waitmem, kmem, umem>>

NextPage ==
    \/ AllocPages
    \/ Kmap
    \/ Kunmap

InitPage == InitLock

SpecPage == InitPage /\ [][NextPage]_vars

\* ------------------------------- wait-queue, signal and identity calls
\* init_wait(&entry w): the call runs to its return in one step.
InitWaitOn(w) ==
    /\ Len(calls) < MaxTaskCalls
    /\ LET r == rust_helper_init_wait(waitmem[w]) IN
           /\ waitmem' = [waitmem EXCEPT ![w] = r.wq_entry]
           /\ calls' = Append(calls,
                 Call("init_wait", w, 0, 0, <<>>, r.ret))
    /\ UNCHANGED <<events, dev, cdevmem, lockmem, kmem, umem>>

InitWait == \E w \in WaitEntries : InitWaitOn(w)

\* signal_pending() is called while the engine's PendingSignalState of the
\* current task is pending (0 or 1); the log keeps it next to the call.
SignalPending ==
    /\ Len(calls) < MaxTaskCalls
    /\ \E pending \in PendingStates :
         LET r == rust_helper_signal_pending IN
           calls' = Append(calls,
                 Call("signal_pending", pending, 0, 0, <<>>, <<r.ret>>))
    /\ UNCHANGED <<events, dev, cdevmem, lockmem, waitmem, kmem, umem>>

\* current_pid() as the kernel's helper would be: the identity of the
\* calling task is read and returned.
CurrentPid_reading_task ==
    /\ Len(calls) < MaxTaskCalls
    /\ \E t \in Tasks :
           calls' = Append(calls,
                 Call("current_pid", t, 0, 0, <<>>, <<t>>))
    /\ UNCHANGED <<events, dev, cdevmem, lockmem, waitmem, kmem, umem>>

\* current_pid() is called by simulated task t; the log keeps t next to
\* the call.
CurrentPid ==
    /\ Len(calls) < MaxTaskCalls
    /\ \E t \in Tasks :
         LET r == rust_helper_current_pid IN
           calls' = Append(calls,
                 Call("current_pid", t, 0, 0, <<>>, <<r.ret>>))
    /\ UNCHANGED <<events, dev, cdevmem, lockmem, waitmem, kmem, umem>>

NextTask ==
    \/ InitWait
    \/ SignalPending
    \/ CurrentPid

InitTask == InitLock

SpecTask == InitTask /\ [][NextTask]_vars

\* ------------------------------------------------ every entry point
\* A path over all the entry points of the three source files.  The
\* buffers hold a fixed non-zero pattern; the user side is one byte shorter
\* than the kernel side, so that both full and short requests occur.
InitAll ==
    /\ InitBase
    /\ dev \in DevT
    /\ kmem = [b \in KBufs |-> [i \in 1..MaxLen |-> (b + i) % (MaxByte + 1)]]
    /\ umem = [i \in 1..(MaxLen - 1) |-> i % (MaxByte + 1)]

\* The path is cut after MaxAllCalls calls.
AllBound == Len(calls) < MaxAllCalls

NextAll ==
    \/ AllBound /\ Printk
    \/ AllBound /\ AllocChrdevRegion
    \/ AllBound /\ UnregisterChrdevRegion
    \/ AllBound /\ CdevInit
    \/ AllBound /\ CdevAdd
    \/ AllBound /\ CdevDel
    \/ AllBound /\ CopyFromUser
    \/ AllBound /\ CopyToUser
    \/ AllBound /\ InitWait
    \/ AllBound /\ Kmap
    \/ AllBound /\ Kunmap
    \/ AllBound /\ SignalPending
    \/ AllBound /\ AllocPages
    \/ AllBound /\ SpinLockInit
    \/ AllBound /\ SpinLock
    \/ AllBound /\ SpinUnlock
    \/ AllBound /\ CurrentPid

SpecAll == InitAll /\ [][NextAll]_vars

\* ------------------------------------------- lifecycle read off the log
\* The call that has just returned, and the log before it.
Now == Last(calls)

Before == Prefix(calls, Len(calls) - 1)

\* The call that has just returned reported a failure or a usage violation:
\* a negative result, or something relayed to the engine during the call.
\* (The events of a path are exactly the relays of its printk calls.)
RelayedBy(log) ==
    Len(SelectSeq(log, LAMBDA c : c.op = "printk"))

Negative(ret) == ret # Void /\ ret[1] < 0

Reported == Negative(Now.ret) \/ Len(events) > RelayedBy(calls)

\* cdev_init has been called on handle p.
Initialized(log, p) ==
    \E i \in 1..Len(log) : log[i].op = "cdev_init" /\ log[i].a = p

\* The regions of the log that are granted and not released since: call i
\* is an alloc_chrdev_region that returned 0, and no later
\* unregister_chrdev_region names the identifier the driver holds for it.
LiveRegions(log) ==
    {i \in 1..Len(log) :
        /\ log[i].op = "alloc_chrdev_region"
        /\ log[i].ret = <<0>>
        /\ ~ \E j \in (i+1)..Len(log) :
               /\ log[j].op = "unregister_chrdev_region"
               /\ log[j].a = log[i].a}

\* The region identified by d is allocated.
Allocated(log, d) == \E i \in LiveRegions(log) : log[i].a = d

\* count fits the reserved count of an allocated region identified by d.
WithinReserved(log, d, count) ==
    \E i \in LiveRegions(log) : log[i].a = d /\ count <= log[i].c

\* Two alloc_chrdev_region calls ask for intersecting minor ranges.
RangesOverlap(r1, r2) ==
    /\ r1.b < r2.b + r2.c
    /\ r2.b < r1.b + r1.c

\* Handle p is added: a cdev_add on it returned 0 and no cdev_del since.
Added(log, p) ==
    \E i \in 1..Len(log) :
        /\ log[i].op = "cdev_add"
        /\ log[i].a = p
        /\ log[i].ret = <<0>>
        /\ ~ \E j \in (i+1)..Len(log) :
               log[j].op = "cdev_del" /\ log[j].a = p

\* ------------------------------------------------------------- claims
\* C1: cdev_add returns 0 if and only if the handle has been initialized,
\* the target region is currently allocated and count is at most the
\* region's reserved count; in every other case the result is negative.
C1_AddIffInitAllocatedWithinCount ==
    (calls # <<>> /\ Now.op = "cdev_add") =>
        LET ok == /\ Initialized(Before, Now.a)
                  /\ Allocated(Before, Now.b)
                  /\ WithinReserved(Before, Now.b, Now.c)
        IN /\ (Now.ret = <<0>>) <=> ok
           /\ ~ok => Negative(Now.ret)

\* C2: alloc_chrdev_region succeeds only when no currently allocated region
\* overlaps the requested range, so no two allocated regions overlap.
C2_NoOverlappingRegions ==
    \A i, j \in LiveRegions(calls) :
        i # j => ~RangesOverlap(calls[i], calls[j])

\* C8: cdev_del on a handle that is not added (before any successful
\* cdev_add, or a second time) fails with NotAdded.
C8_DelOfNotAddedFails ==
    (calls # <<>> /\ Now.op = "cdev_del" /\ ~Added(Before, Now.a))
        => Reported

\* C9: unregister_chrdev_region on a region that is not currently
\* allocated fails with NotAllocated and is detectable as a usage error.
C9_ReleaseOfNotAllocatedFails ==
    (calls # <<>> /\ Now.op = "unregister_chrdev_region"
                  /\ ~Allocated(Before, Now.a))
        => Reported

\* cdev_add on a handle that is already added fails (the general rule
\* behind the scenario of C10).
AddOnAddedFails ==
    (calls # <<>> /\ Now.op = "cdev_add" /\ Added(Before, Now.a))
        => Negative(Now.ret)

\* C10: in the scenario alloc_chrdev_region(&dev, 0, 1, "test"),
\* cdev_init(h, ops), cdev_add(h, dev, 1), cdev_add(h, dev, 1) the
\* allocation and the first cdev_add succeed and the second cdev_add, on
\* the handle that is then already added, fails.
C10_SecondAddFails ==
    \A h \in Handles :
        (/\ Len(calls) = 4
         /\ calls[1].op = "alloc_chrdev_region"
         /\ calls[1].b = 0 /\ calls[1].c = 1
         /\ calls[2].op = "cdev_init" /\ calls[2].a = h
         /\ calls[3].op = "cdev_add" /\ calls[3].a = h
         /\ calls[3].b = dev /\ calls[3].c = 1
         /\ calls[4].op = "cdev_add" /\ calls[4].a = h
         /\ calls[4].b = dev /\ calls[4].c = 1)
        => /\ calls[1].ret = <<0>>
           /\ calls[3].ret = <<0>>
           /\ Added(Prefix(calls, 3), h)
           /\ AddOnAddedFails

\* C3: when the user side is valid for at least n bytes, copy_from_user
\* and copy_to_user return 0 and the first n bytes of the destination then
\* equal the first n bytes of the source.
C3_ValidCopyIsPerformed ==
    (calls # <<>> /\ Now.b <= Len(umem)) =>
        /\ Now.op = "copy_from_user" =>
              /\ Now.ret = <<0>>
              /\ Bytes(kmem[Now.a], Now.b) = Now.data
        /\ Now.op = "copy_to_user" =>
              /\ Now.ret = <<0>>
              /\ Bytes(umem, Now.b) = Now.data

\* C4: when n bytes are requested and the user side is valid for v < n
\* bytes, the call returns n - v and every byte of the destination beyond
\* the first v keeps its value.
C4_ShortCopyReturnsRemainder ==
    [][\A kb \in KBufs :
         (/\ calls' # calls
          /\ Last(calls').op \in {"copy_from_user", "copy_to_user"}
          /\ Last(calls').a = kb
          /\ Last(calls').b > Len(umem))
         => /\ Last(calls').ret = <<Last(calls').b - Len(umem)>>
            /\ Len(umem') = Len(umem)
            /\ \A i \in (Len(umem)+1)..MaxLen : kmem'[kb][i] = kmem[kb][i]
       ]_vars

\* C5: copy_to_user immediately followed by copy_from_user over the same
\* length, both returning 0, leaves in the final destination exactly the
\* bytes the first call was given as its source.
C5_RoundTrip ==
    (/\ Len(calls) >= 2
     /\ Last(Before).op = "copy_to_user"
     /\ Now.op = "copy_from_user"
     /\ Last(Before).b = Now.b
     /\ Now.b <= Len(umem)
     /\ Last(Before).ret = <<0>>
     /\ Now.ret = <<0>>)
    => Bytes(kmem[Now.a], Now.b) = Last(Before).data

\* C6: spin_lock on a lock that is already held is reported as a usage
\* violation, never silently granted.
C6_DoubleAcquireReported ==
    (calls # <<>> /\ Now.op = "spin_lock" /\ Held(Before, Now.a))
        => Reported

\* C7: spin_unlock on a lock that is not held (never acquired, or already
\* released) is reported as a usage violation.
C7_ReleaseOfNotHeldReported ==
    (calls # <<>> /\ Now.op = "spin_unlock" /\ ~Held(Before, Now.a))
        => Reported

\* Page p is mapped: a kmap on it returned a non-null address and no kunmap
\* on it since.
Mapped(log, p) ==
    \E i \in 1..Len(log) :
        /\ log[i].op = "kmap"
        /\ log[i].a = p
        /\ log[i].ret # <<0>>
        /\ ~ \E j \in (i+1)..Len(log) :
               log[j].op = "kunmap" /\ log[j].a = p

\* C11: under the always-fail mode alloc_pages returns a null page on every
\* call; under the always-succeed mode it returns a valid page, and kmap
\* of a valid, unmapped page does not fail.
C11_AllocPagesFollowsMode ==
    /\ (calls # <<>> /\ Now.op = "alloc_pages") =>
          /\ Now.data = <<"always_fail">> => Now.ret = <<0>>
          /\ Now.data = <<"always_succeed">> => Now.ret # <<0>>
    /\ (calls # <<>> /\ Now.op = "kmap" /\ Now.a # 0
                     /\ ~Mapped(Before, Now.a))
          => Now.ret # <<0>>

\* C12: kmap returns an invalid handle when the page is null or already
\* mapped and a valid address otherwise; kunmap of a page that is not
\* currently mapped fails and is reported as a usage violation.
C12_MapUnmapLifecycle ==
    /\ (calls # <<>> /\ Now.op = "kmap") =>
          (Now.ret = <<0>>) <=> (Now.a = 0 \/ Mapped(Before, Now.a))
    /\ (calls # <<>> /\ Now.op = "kunmap" /\ ~Mapped(Before, Now.a))
          => Reported

\* C13: signal_pending returns true exactly when the PendingSignalState of
\* the current task is true.
C13_SignalPendingReadsState ==
    (calls # <<>> /\ Now.op = "signal_pending") =>
        ((Now.ret # <<0>>) <=> (Now.a = 1))

\* The driver's objects the shim is handed pointers to.
Memory == <<dev, cdevmem, lockmem, waitmem, kmem, umem>>

\* C14: printk never fails: it returns a non-negative value, relays the raw
\* format descriptor to the engine's trace exactly once per call, whatever
\* the variable arguments are, and changes nothing else.
C14_PrintkRelaysRawFormat ==
    [][(calls' # calls /\ Last(calls').op = "printk") =>
          /\ Last(calls').ret # Void
          /\ Last(calls').ret[1] >= 0
          /\ events' = Append(events, Last(calls').a)
          /\ Memory' = Memory
      ]_vars

\* A second printk has returned, this one with a variable argument, after
\* another shim call.
C14_Witness ==
    /\ Len(calls) >= 3
    /\ Now.op = "printk"
    /\ Now.data # <<>>
    /\ Len(events) = 2
    /\ \E i \in 1..Len(Before) : Before[i].op # "printk"

\* The calls of the log that are current_pid calls.
PidCalls == {i \in 1..Len(calls) : calls[i].op = "current_pid"}

\* C15 (as stated): current_pid always succeeds, every call made by one
\* simulated task returns the same value whatever is interleaved, and the
\* values of two different simulated tasks differ.
C15_PidStableAndDistinguishing ==
    \A i, j \in PidCalls :
        /\ calls[i].ret # Void /\ calls[i].ret[1] >= 0
        /\ calls[i].a = calls[j].a => calls[i].ret = calls[j].ret
        /\ calls[i].a # calls[j].a => calls[i].ret # calls[j].ret

\* C15 (amended): current_pid always succeeds and every call of a path
\* returns the same value, 0, whatever is interleaved and whichever
\* simulated task makes the call.
C15_PidIsConstant ==
    \A i, j \in PidCalls :
        /\ calls[i].ret # Void /\ calls[i].ret[1] >= 0
        /\ calls[i].ret = calls[j].ret
        /\ calls[i].ret = <<0>>

\* Two simulated tasks have called current_pid, with another shim call
\* between the two calls.
C15_Witness ==
    /\ Len(calls) = 3
    /\ calls[1].op = "current_pid"
    /\ calls[2].op # "current_pid"
    /\ calls[3].op = "current_pid"
    /\ calls[1].a # calls[3].a

\* Handle p is added and bound to a region that has been released since:
\* the cdev_add that added it named an allocated region, and an
\* unregister_chrdev_region of that region has followed.
AddedToReleasedRegion(log, p) ==
    \E i \in 1..Len(log) :
        /\ log[i].op = "cdev_add"
        /\ log[i].a = p
        /\ log[i].ret = <<0>>
        /\ Allocated(Prefix(log, i - 1), log[i].b)
        /\ ~ \E j \in (i+1)..Len(log) :
               log[j].op = "cdev_del" /\ log[j].a = p
        /\ \E j \in (i+1)..Len(log) :
               /\ log[j].op = "unregister_chrdev_region"
               /\ log[j].a = log[i].b

\* C16: unregister_chrdev_region leaves the devices bound to the region
\* added, and a later cdev_del of such a device succeeds but is flagged as
\* a diagnostic event.
C16_DelAfterReleaseFlagged ==
    (calls # <<>> /\ Now.op = "cdev_del"
                  /\ AddedToReleasedRegion(Before, Now.a))
        => /\ ~Negative(Now.ret)
           /\ Len(events) > RelayedBy(calls)

\* C17: no shim operation suspends or blocks: in every state of a path,
\* after any earlier calls, every shim call runs to its return, spin_lock
\* on an already held lock and init_wait included.
C17_NoCallBlocks ==
    /\ Len(calls) < MaxLockCalls =>
          /\ \A l \in Locks : ENABLED SpinLockOn(l)
          /\ ENABLED Printk
          /\ ENABLED SpinLockInit
          /\ ENABLED SpinUnlock
    /\ Len(calls) < MaxTaskCalls =>
          /\ \A w \in WaitEntries : ENABLED InitWaitOn(w)
          /\ ENABLED SignalPending
          /\ ENABLED CurrentPid
    /\ Len(calls) < MaxCdevCalls =>
          /\ ENABLED AllocChrdevRegion
          /\ ENABLED UnregisterChrdevRegion
          /\ ENABLED CdevInit
          /\ ENABLED CdevAdd
          /\ ENABLED CdevDel
    /\ Len(calls) < MaxCopyCalls =>
          /\ ENABLED CopyFromUser
          /\ ENABLED CopyToUser
    /\ Len(calls) < MaxPageCalls =>
          /\ ENABLED AllocPages
          /\ ENABLED Kmap
          /\ ENABLED Kunmap

\* A spin_lock has returned and the lock is held, so that a further
\* spin_lock on it is a call on an already held lock.
C17_Witness ==
    /\ calls # <<>>
    /\ Len(calls) < MaxAllCalls
    /\ Now.op = "spin_lock"
    /\ Held(calls, Now.a)

\* The entry points that return a value; the others return void.
ValueOps ==
    {"printk", "alloc_chrdev_region", "cdev_add", "copy_from_user",
     "copy_to_user", "kmap", "signal_pending", "alloc_pages",
     "current_pid"}

\* C18: every entry point is stateless and deterministic: whatever its
\* arguments and whatever calls came before, its result is the constant 0
\* (a null pointer for kmap and alloc_pages) or no result, and the call
\* leaves the driver's objects as they were.
C18_ConstantResultNoState ==
    [][calls' # calls =>
          /\ Last(calls').ret =
                (IF Last(calls').op \in ValueOps THEN <<0>> ELSE Void)
          /\ Memory' = Memory
      ]_vars

\* The same entry point has been called twice with different arguments,
\* the second time after a call has already been made.
C18_Witness ==
    /\ Len(calls) = 2
    /\ calls[1].op = "cdev_add"
    /\ calls[2].op = "cdev_add"
    /\ calls[1].a # calls[2].a
    /\ calls[1].c # calls[2].c
    /\ calls[1].ret = calls[2].ret

\* C19: alloc_chrdev_region returns 0 for every base minor, count and name
\* and leaves the driver's dev_t variable as it was.
C19_AllocLeavesDevUnwritten ==
    [][(calls' # calls /\ Last(calls').op = "alloc_chrdev_region") =>
          /\ Last(calls').ret = <<0>>
          /\ dev' = dev
      ]_vars

\* Two allocations with different base minors and counts have returned 0,
\* and the driver's dev_t variable holds neither base minor.
C19_Witness ==
    /\ Len(calls) = 2
    /\ calls[1].op = "alloc_chrdev_region"
    /\ calls[2].op = "alloc_chrdev_region"
    /\ calls[1].b # calls[2].b
    /\ calls[1].c # calls[2].c
    /\ calls[1].ret = <<0>> /\ calls[2].ret = <<0>>
    /\ dev # calls[2].b

====
